---- MODULE Spec2Model ----
(***************************************************************************)
(* The execution engine of build_agent.py: execute_build_stages runs one   *)
(* worker thread per job (process_single_item); a worker walks its job's   *)
(* stages in order and, inside a stage, the task kinds in the order of the *)
(* if-blocks of process_single_item.  All workers share one dictionary,    *)
(* summary, which handlers and engine update with `summary[c] += 1`, a     *)
(* read followed by a write with no lock.                                  *)
(*                                                                         *)
(* Reading a job's configuration and running a handler touch no state      *)
(* another thread can see, so one action runs a worker up to its next      *)
(* access to summary; every read and every write of summary is an action   *)
(* of its own.                                                             *)
(***************************************************************************)
EXTENDS Integers, Sequences, FiniteSets, TLC

\* ------------------------------------------------------------------ bounds
\* The two workers of a batch.
JobIds == {"A", "B"}
\* Most stages a job declares.
MaxStages == 2
\* Most entries in the task maps of a whole batch.
MaxTasks == 2
\* Most steps of an sh/bash task, most branches of a setup_and_clone task.
MaxSteps == 2

\* --------------------------------------------------------- the task kinds
\* The if-blocks of process_single_item, top to bottom.
TaskOrder ==
  << "setup_and_clone", "docker_build", "docker_hub", "sh", "bash", "maven",
     "send_notification", "gradle", "trivy", "yarn", "go_build", "npm",
     "sonarqube_analysis", "request_approval" >>

Kinds == { TaskOrder[i] : i \in 1..Len(TaskOrder) }

\* The index in TaskOrder of a kind.
IndexOf(kind) == CHOOSE i \in 1..Len(TaskOrder) : TaskOrder[i] = kind

\* The blocks whose call passes the local variable clone_dir.
UsesCloneDir ==
  { "docker_build", "maven", "gradle", "yarn", "go_build", "npm",
    "sonarqube_analysis" }

\* The blocks that wrap their call in a try/except of their own and count
\* the outcome themselves.
InnerTry == { "send_notification", "request_approval" }

\* The kinds the configurations of Init are drawn from.
ConfigKinds == { "setup_and_clone", "sh", "maven", "send_notification" }

\* The kinds of the jobs that run beside job "A".
PeerKinds == { "sh" }

\* The kinds of a job that runs alone.
AloneKinds == { "setup_and_clone", "sh", "maven" }

Counters == { "completed", "failed", "uploaded" }

VARIABLES
  jobs,       \* the batch: job id -> sequence of stages (never changes)
  mainpc,     \* position of execute_build_stages
  pc,         \* position of each worker
  stage,      \* index of the stage a worker is in
  kidx,       \* index in TaskOrder of the next block a worker examines
  ignore,     \* the local ignore_failure of a worker
  clone_dir,  \* the local clone_dir of a worker
  todo,       \* the increments a worker still performs before it goes on
  tmp,        \* the counter value a worker read and has not written back
  after,      \* where a worker goes once todo is empty
  summary,    \* the shared dictionary
  report,     \* the summary as printed, <<>> before
  log         \* per worker, what it did so far (history)

vars ==
  << jobs, mainpc, pc, stage, kidx, ignore, clone_dir, todo, tmp, after,
     summary, report, log >>

\* ------------------------------------------------------ the configuration
\* The tasks mapping of a stage is the sequence of its entries, in the
\* order the configuration declares them; an entry is a kind and the value
\* of its "enabled".  The kinds that have an entry:
KeysOf(tasks) == { tasks[i].kind : i \in 1..Len(tasks) }

\* tasks.get(kind, {}): the entry of a kind that has one.
EntryOf(tasks, kind) == tasks[CHOOSE i \in 1..Len(tasks) : tasks[i].kind = kind]

\* A kind the engine has no block for is run as a shell task: sh is
\* enabled as soon as such an entry is.
IsEnabled_UnknownAsShell(tasks, kind) ==
  \/ kind \in KeysOf(tasks) /\ EntryOf(tasks, kind).enabled
  \/ kind = "sh" /\ \E i \in 1..Len(tasks) : tasks[i].kind \notin Kinds /\ tasks[i].enabled

\* A task without an entry counts as enabled (the default of the handlers'
\* own `get("enabled", True)`).
IsEnabled_DefaultOn(tasks, kind) ==
  IF kind \in KeysOf(tasks) THEN EntryOf(tasks, kind).enabled ELSE TRUE

\* tasks.get(kind, {}).get("enabled", False)
IsEnabled(tasks, kind) ==
  IF kind \in KeysOf(tasks) THEN EntryOf(tasks, kind).enabled ELSE FALSE

\* stage.get("ignore_failure", False)
IgnoreFailure(st) ==
  IF "ignore_failure" \in DOMAIN st THEN st.ignore_failure ELSE FALSE

\* The orders in which a mapping can declare the given kinds.
Orders(present) ==
  { o \in [ 1..Cardinality(present) -> present ] :
      \A a, b \in DOMAIN o : a # b => o[a] # o[b] }

\* The order of the given kinds that follows TaskOrder.
EngineOrder(present) ==
  CHOOSE o \in Orders(present) : \A a, b \in DOMAIN o : a < b => IndexOf(o[a]) < IndexOf(o[b])

\* The mapping that declares its kinds in order o with the values of e.
Mapping(o, e) == [ i \in DOMAIN o |-> [ kind |-> o[i], enabled |-> e[o[i]] ] ]

\* The task maps with the given present kinds: each entry enabled or not,
\* declared in the order of TaskOrder.
TaskMaps(present) == { Mapping(EngineOrder(present), e) : e \in [ present -> BOOLEAN ] }

\* A stage: a task map and, possibly, ignore_failure.  A stage without any
\* task entry is taken without ignore_failure, which nothing reads then.
StagesWith(present) ==
  { [ tasks |-> t ] : t \in TaskMaps(present) }
    \cup { [ tasks |-> t, ignore_failure |-> b ] :
             t \in TaskMaps(present), b \in IF present = {} THEN {} ELSE BOOLEAN }

\* The stages over the given kinds with at most n task entries.
StageUniverse(kinds, n) ==
  UNION { StagesWith(p) : p \in { q \in SUBSET kinds : Cardinality(q) <= n } }

\* The jobs of exactly len stages with at most n task entries in all.
RECURSIVE JobsOfLen(_, _, _)
JobsOfLen(kinds, len, n) ==
  IF len = 0 THEN { <<>> }
  ELSE UNION { { << st >> \o rest :
                   rest \in JobsOfLen(kinds, len - 1, n - Len(st.tasks)) } :
               st \in StageUniverse(kinds, n) }

\* The jobs of at most MaxStages stages with at most n task entries.
JobUniverse(kinds, n) == UNION { JobsOfLen(kinds, len, n) : len \in 0..MaxStages }

\* Side by side: every job holds at most one task entry; job "A" has up to
\* MaxStages stages and a task of any of ConfigKinds, the other jobs have at
\* most one stage and a task of PeerKinds.
SideBySide ==
  { b \in [ JobIds -> JobUniverse(ConfigKinds, 1) ] :
      \A j \in JobIds \ { "A" } :
        b[j] \in JobsOfLen(PeerKinds, 0, 1) \cup JobsOfLen(PeerKinds, 1, 1) }

\* Alone: job "A" holds up to MaxTasks task entries of AloneKinds and the
\* other jobs have no stage at all.
Alone ==
  { [ j \in JobIds |-> IF j = "A" THEN busy ELSE <<>> ] :
      busy \in JobUniverse(AloneKinds, MaxTasks) }

\* The kinds of the stages that declare their tasks in any order.
OrderKinds == { "setup_and_clone", "maven" }

\* Declared in any order: job "A" has two stages, each with at most
\* MaxTasks entries of OrderKinds, all enabled, declared in any order, with
\* ignore_failure true or absent; the other jobs have no stage.
AnyOrderStages ==
  UNION { { [ tasks |-> Mapping(o, [ k \in Kinds |-> TRUE ]) ] : o \in Orders(p) }
            \cup { [ tasks |-> Mapping(o, [ k \in Kinds |-> TRUE ]), ignore_failure |-> TRUE ] :
                     o \in Orders(p) } :
          p \in { q \in SUBSET OrderKinds : q # {} /\ Cardinality(q) <= MaxTasks } }

AnyOrder ==
  { [ j \in JobIds |-> IF j = "A" THEN << s1, s2 >> ELSE <<>> ] :
      s1 \in AnyOrderStages, s2 \in AnyOrderStages }

\* The flat mode (is_jobs false): the batch is a list of stages and each
\* of them is an item of its own, so that the stages of call j are the
\* one-element list [item].  Every item holds at most one task entry.
FlatKinds == { "setup_and_clone", "sh", "maven" }

Flat == [ JobIds -> JobsOfLen(FlatKinds, 1, 1) ]

\* The order of the items in the list.
ItemOrder == << "A", "B" >>

ItemIndex(j) == CHOOSE i \in 1..Len(ItemOrder) : ItemOrder[i] = j

\* One stage over kinds of every sort: blocks before and after the
\* notification, the two blocks with a try of their own, and a kind the
\* engine has no block for.
WideKinds ==
  { "docker_hub", "maven", "send_notification", "trivy", "request_approval", "deploy" }

\* Job "A" has one stage with at most MaxTasks entries of WideKinds, each
\* enabled or not, declared in any order; the other jobs have no stage.
WideStages ==
  UNION { UNION { { [ tasks |-> Mapping(o, e) ] : e \in [ p -> BOOLEAN ] }
                    \cup { [ tasks |-> Mapping(o, e), ignore_failure |-> b ] :
                             e \in [ p -> BOOLEAN ], b \in BOOLEAN } :
                  o \in Orders(p) } :
          p \in { q \in SUBSET WideKinds : q # {} /\ Cardinality(q) <= MaxTasks } }

Wide == { [ j \in JobIds |-> IF j = "A" THEN << st >> ELSE <<>> ] : st \in WideStages }

\* The batch of two jobs of the example: the first job clones in its first
\* stage, without ignore_failure, and builds in its second; the second job
\* clones in its only stage, with ignore_failure.
Example ==
  { [ j \in JobIds |->
        IF j = "A"
          THEN << [ tasks |-> Mapping(<< "setup_and_clone" >>, [ k \in Kinds |-> TRUE ]),
                    ignore_failure |-> FALSE ],
                  [ tasks |-> Mapping(<< "maven" >>, [ k \in Kinds |-> TRUE ]) ] >>
          ELSE << [ tasks |-> Mapping(<< "setup_and_clone" >>, [ k \in Kinds |-> TRUE ]),
                    ignore_failure |-> TRUE ] >> ] }

\* ------------------------------------------------------------ the handlers
\* n times the same increment, performed by the handler.
RECURSIVE Rep(_, _)
Rep(c, n) == IF n = 0 THEN <<>> ELSE <<[ ctr |-> c, by |-> "handler" ]>> \o Rep(c, n - 1)

\* What one call of a handler can do, as seen by the engine: the increments
\* of summary it performs, in order, and how it ends: "ok" (a true value),
\* "fail" (False or None) or "raise" (an exception leaves the handler).
Run(incs, ret) == [ incs |-> incs, ret |-> ret ]

\* run_shell_steps / run_bash_steps: no steps returns False and counts
\* nothing; every successful step counts completed; the first failing step
\* counts failed and ends the call.
StepRuns ==
  { Run(<<>>, "fail") }
    \cup { Run(Rep("completed", n), "ok") : n \in 1..MaxSteps }
    \cup { Run(Rep("completed", n) \o Rep("failed", 1), "fail") : n \in 0..(MaxSteps - 1) }

\* setup_and_clone_repository: a missing source_url, missing credentials or
\* a failing clone count failed and return None; every branch cloned or
\* checked out counts completed; a failing checkout counts failed and
\* returns None; subprocess.run(..., check=True) raises before the first
\* clone (lines 1058, 1063) or after it (line 1089).
CloneRuns ==
  { Run(Rep("completed", n), "ok") : n \in 1..MaxSteps }
    \cup { Run(Rep("completed", n) \o Rep("failed", 1), "fail") : n \in 0..(MaxSteps - 1) }
    \cup { Run(Rep("completed", n), "raise") : n \in 0..1 }

\* A handler that counts uploaded, and not completed, when it succeeds.
PlainRuns_Uploaded ==
  { Run(<<[ ctr |-> "uploaded", by |-> "handler" ]>>, "ok"),
    Run(<<[ ctr |-> "failed", by |-> "handler" ]>>, "fail"), Run(<<>>, "raise") }

\* The handlers that count one completed or one failed; an exception of
\* subprocess leaves them before they count (run_maven_build line 726).
PlainRuns ==
  { Run(Rep("completed", 1), "ok"), Run(Rep("failed", 1), "fail"), Run(<<>>, "raise") }

\* notify_on_task_completion and request_approval never touch summary.
SilentRuns == { Run(<<>>, "ok"), Run(<<>>, "fail"), Run(<<>>, "raise") }

HandlerRuns(kind) ==
  CASE kind = "setup_and_clone" -> CloneRuns
    [] kind \in { "sh", "bash" } -> StepRuns
    [] kind \in InnerTry -> SilentRuns
    [] OTHER -> PlainRuns

\* -------------------------------------------------------------- the engine
\* The engine counts every outcome in uploaded.
Inc_Uploaded(c, who) == [ ctr |-> "uploaded", by |-> who ]

\* One `summary[c] += 1` of the engine.
Inc(c, who) == [ ctr |-> c, by |-> who ]

\* The increments the engine itself performs after a call that returned.
EngineIncs(kind, ret) ==
  IF ret = "fail" THEN << Inc("failed", "engine") >>
  ELSE IF kind \in InnerTry THEN << Inc("completed", "engine") >>
  ELSE <<>>

\* The failure ends the stage only and the job goes on with its next stage.
OnFailure_StageOnly(ignore_failure) == IF ignore_failure THEN "next" ELSE "stage_end"

\* `if not ignore_failure: return` after a failure was counted.
OnFailure(ignore_failure) == IF ignore_failure THEN "next" ELSE "return"

\* No except clause around the stage: the exception leaves the worker.
OnException_Propagates == "propagate"

\* The except clause of the stage (lines 316-320) counts failed and falls
\* through to the end of the stage; the for loop goes on.
OnException == "stage_end"

\* The blocks with a try of their own leave the exception to the except
\* clause of the stage.
ExceptionTarget_StageOnly(kind, ignore_failure) == OnException

\* Where an exception of the call of this kind is caught.
ExceptionTarget(kind, ignore_failure) ==
  IF kind \in InnerTry THEN OnFailure(ignore_failure) ELSE OnException

\* The engine walks the entries of the mapping in the order the
\* configuration declares them: the first enabled entry declared after the
\* kind examined last (all of them at the start of a stage).
NextEnabled_Declared(tasks, from) ==
  LET last == IF from > 1 /\ TaskOrder[from - 1] \in KeysOf(tasks)
                THEN CHOOSE i \in 1..Len(tasks) : tasks[i].kind = TaskOrder[from - 1]
                ELSE 0
      idx == { i \in (last + 1)..Len(tasks) : tasks[i].enabled }
  IN  IF idx = {} THEN 0 ELSE IndexOf(tasks[CHOOSE i \in idx : \A k \in idx : i <= k].kind)

\* The engine walks its blocks from the last to the first.
NextEnabled_Descending(tasks, from) ==
  LET idx == { i \in 1..Len(TaskOrder) :
                 IsEnabled(tasks, TaskOrder[i]) /\ (from = 1 \/ i < from - 1) }
  IN  IF idx = {} THEN 0 ELSE CHOOSE i \in idx : \A k \in idx : i >= k

\* The index of the first enabled block at or after from, 0 if none.
NextEnabled(tasks, from) ==
  LET idx == { i \in from..Len(TaskOrder) : IsEnabled(tasks, TaskOrder[i]) }
  IN  IF idx = {} THEN 0 ELSE CHOOSE i \in idx : \A k \in idx : i <= k

\* The main thread goes on without waiting for the workers.
JoinReady_NoWait == TRUE

\* The main thread waits for something that never happens.
JoinReady_Never == FALSE

\* concurrent.futures.wait(futures) and the exit of the with block: every
\* future is done, by a return or by an exception of the worker.
JoinReady == \A j \in JobIds : pc[j] \in { "done", "crashed" }

\* ignore_failure is one variable all workers share.
IgnoreOf_Shared(j) == \E i \in JobIds : ignore[i]

\* ignore_failure is a local variable of the call of process_single_item.
IgnoreOf(j) == ignore[j]

Unbound == << "unbound" >>
NoneDir == << "None" >>
PathOf(j, s) == << "path", j, s >>

\* The result of setup_and_clone_repository is dropped and clone_dir is
\* bound to None.
Assign_None(j, dir) == [ clone_dir EXCEPT ![j] = NoneDir ]

\* clone_dir outlives the call: it stays bound for the items that follow.
Assign_Later(j, dir) ==
  [ i \in JobIds |-> IF ItemIndex(i) >= ItemIndex(j) THEN dir ELSE clone_dir[i] ]

\* clone_dir is one variable that every worker assigns.
Assign_Shared(j, dir) == [ i \in JobIds |-> dir ]

\* clone_dir = setup_and_clone_repository(...): the assignment binds the
\* local variable of this worker's call of process_single_item.
Assign(j, dir) == [ clone_dir EXCEPT ![j] = dir ]

Event(e, s, k, a, b) == [ ev |-> e, stage |-> s, kind |-> k, arg |-> a, by |-> b ]

\* The history entry of a call: how it ended and, for a block that passes
\* clone_dir, the value passed.
CallEvent(j, s, k, a) ==
  [ ev |-> "call", stage |-> s, kind |-> k, arg |-> a, by |-> "engine",
    dir |-> IF k \in UsesCloneDir THEN clone_dir[j] ELSE <<>> ]

\* ------------------------------------------------------------------- Init
InitWith(batches) ==
  /\ jobs \in batches
  /\ mainpc = "start"
  /\ pc = [ j \in JobIds |-> "new" ]
  /\ stage = [ j \in JobIds |-> 1 ]
  /\ kidx = [ j \in JobIds |-> 1 ]
  /\ ignore = [ j \in JobIds |-> FALSE ]
  /\ clone_dir = [ j \in JobIds |-> Unbound ]
  /\ todo = [ j \in JobIds |-> <<>> ]
  /\ tmp = [ j \in JobIds |-> 0 ]
  /\ after = [ j \in JobIds |-> "next" ]
  /\ summary = [ c \in Counters |-> 0 ]
  /\ report = <<>>
  /\ log = [ j \in JobIds |-> <<>> ]

\* ------------------------------------------------- execute_build_stages
\* simulation_thread.start()
StartSimulation ==
  /\ mainpc = "start"
  /\ mainpc' = "submit"
  /\ UNCHANGED << jobs, pc, stage, kidx, ignore, clone_dir, todo, tmp, after,
                  summary, report, log >>

\* executor.submit(process_single_item, job) for every job: the pool has as
\* many threads as jobs, so every job gets a worker.
SubmitJobs ==
  /\ mainpc = "submit"
  /\ mainpc' = "wait"
  /\ pc' = [ j \in JobIds |-> "stage" ]
  /\ UNCHANGED << jobs, stage, kidx, ignore, clone_dir, todo, tmp, after,
                  summary, report, log >>

WaitFutures ==
  /\ mainpc = "wait"
  /\ JoinReady
  /\ mainpc' = "join"
  /\ UNCHANGED << jobs, pc, stage, kidx, ignore, clone_dir, todo, tmp,
                  after, summary, report, log >>

\* for stage in jobs_or_stages: process_single_item(stage).  The main
\* thread itself runs the call: the next item is called when the call of
\* every item before it has returned.
CallItem(j) ==
  /\ mainpc = "submit"
  /\ pc[j] = "new"
  /\ \A i \in JobIds : ItemIndex(i) < ItemIndex(j) => pc[i] = "done"
  /\ pc' = [ pc EXCEPT ![j] = "stage" ]
  /\ UNCHANGED << jobs, mainpc, stage, kidx, ignore, clone_dir, todo, tmp,
                  after, summary, report, log >>

\* The end of the for loop over the items.
EndItems ==
  /\ mainpc = "submit"
  /\ \A j \in JobIds : pc[j] = "done"
  /\ mainpc' = "join"
  /\ UNCHANGED << jobs, pc, stage, kidx, ignore, clone_dir, todo, tmp,
                  after, summary, report, log >>

\* simulation_thread.join()
JoinSimulation ==
  /\ mainpc = "join"
  /\ mainpc' = "report"
  /\ UNCHANGED << jobs, pc, stage, kidx, ignore, clone_dir, todo, tmp,
                  after, summary, report, log >>

\* click.echo(f"Build process completed. Summary: {summary}")
Report ==
  /\ mainpc = "report"
  /\ mainpc' = "exit"
  /\ report' = summary
  /\ UNCHANGED << jobs, pc, stage, kidx, ignore, clone_dir, todo, tmp,
                  after, summary, log >>

\* ---------------------------------------------------- process_single_item
\* The call of process_single_item for job j has begun.
Started(j) == pc[j] # "new" /\ ~(pc[j] = "stage" /\ stage[j] = 1)

\* The call of process_single_item for job j occupies a thread of the pool.
Running(j) == Started(j) /\ pc[j] \notin { "done", "crashed" }

\* The pool has one thread less than there are jobs.
MaxWorkers_One == Cardinality(JobIds) - 1

\* ThreadPoolExecutor(max_workers=len(jobs_or_stages))
MaxWorkers == Cardinality(JobIds)

\* A submitted job begins when the pool has a thread for it: fewer than
\* MaxWorkers other jobs occupy one.
HasWorker(j) ==
  Started(j) \/ Cardinality({ i \in JobIds \ { j } : Running(i) }) < MaxWorkers

\* The head of `for stage in stages` and the first lines of its body.
BeginStage(j) ==
  /\ pc[j] = "stage"
  /\ HasWorker(j)
  /\ IF stage[j] > Len(jobs[j])
       THEN /\ pc' = [ pc EXCEPT ![j] = "done" ]
            /\ UNCHANGED << ignore, kidx >>
       ELSE /\ pc' = [ pc EXCEPT ![j] = "task" ]
            /\ ignore' = [ ignore EXCEPT ![j] = IgnoreFailure(jobs[j][stage[j]]) ]
            /\ kidx' = [ kidx EXCEPT ![j] = 1 ]
  /\ UNCHANGED << jobs, mainpc, stage, clone_dir, todo, tmp, after,
                  summary, report, log >>

\* No enabled block is left in the stage: "Completed stage", next stage.
EndStage(j) ==
  /\ pc[j] = "task"
  /\ NextEnabled(jobs[j][stage[j]].tasks, kidx[j]) = 0
  /\ pc' = [ pc EXCEPT ![j] = "stage" ]
  /\ stage' = [ stage EXCEPT ![j] = @ + 1 ]
  /\ log' = [ log EXCEPT ![j] = Append(@, Event("stage_done", stage[j], "", "", "engine")) ]
  /\ UNCHANGED << jobs, mainpc, kidx, ignore, clone_dir, todo, tmp, after,
                  summary, report >>

\* Where the worker goes when it has nothing left to count.
Goto(j, where) ==
  CASE where = "next" ->
         /\ pc' = [ pc EXCEPT ![j] = "task" ]
         /\ kidx' = [ kidx EXCEPT ![j] = @ + 1 ]
         /\ UNCHANGED stage
    [] where = "return" ->
         /\ pc' = [ pc EXCEPT ![j] = "done" ]
         /\ UNCHANGED << stage, kidx >>
    [] where = "stage_end" ->
         /\ pc' = [ pc EXCEPT ![j] = "stage" ]
         /\ stage' = [ stage EXCEPT ![j] = @ + 1 ]
         /\ UNCHANGED kidx
    [] OTHER ->  \* an exception no except clause catches ends the worker
         /\ pc' = [ pc EXCEPT ![j] = "crashed" ]
         /\ UNCHANGED << stage, kidx >>

\* The history entries of leaving towards where.
Leaving(j, where) ==
  IF where = "stage_end"
    THEN << Event("stage_done", stage[j], "", "", "engine") >>
    ELSE <<>>

\* The next enabled block of the stage is one whose call reads clone_dir
\* while no setup_and_clone block of this worker has assigned it: the call
\* raises UnboundLocalError before the handler is entered.
UnboundCall(j) ==
  /\ pc[j] = "task"
  /\ LET k == NextEnabled(jobs[j][stage[j]].tasks, kidx[j])
     IN  /\ k # 0
         /\ TaskOrder[k] \in UsesCloneDir
         /\ clone_dir[j] = Unbound
         /\ kidx' = [ kidx EXCEPT ![j] = k ]
         /\ todo' = [ todo EXCEPT ![j] = << Inc("failed", "except") >> ]
         /\ after' = [ after EXCEPT ![j] = ExceptionTarget(TaskOrder[k], IgnoreOf(j)) ]
         /\ log' = [ log EXCEPT ![j] =
                       Append(@, Event("unbound", stage[j], TaskOrder[k], "raise", "engine")) ]
  /\ pc' = [ pc EXCEPT ![j] = "read" ]
  /\ UNCHANGED << jobs, mainpc, stage, ignore, clone_dir, tmp, summary, report >>

\* The next enabled block of the stage calls its handler.
CallHandler(j) ==
  /\ pc[j] = "task"
  /\ LET k == NextEnabled(jobs[j][stage[j]].tasks, kidx[j])
     IN  /\ k # 0
         /\ ~(TaskOrder[k] \in UsesCloneDir /\ clone_dir[j] = Unbound)
         /\ \E run \in HandlerRuns(TaskOrder[k]) :
              LET kind == TaskOrder[k]
                  incs == IF run.ret = "raise"
                            THEN run.incs \o << Inc("failed", "except") >>
                            ELSE run.incs \o EngineIncs(kind, run.ret)
                  where == CASE run.ret = "raise" -> ExceptionTarget(kind, IgnoreOf(j))
                             [] run.ret = "fail" -> OnFailure(IgnoreOf(j))
                             [] OTHER -> "next"
              IN  /\ kidx' = [ kidx EXCEPT ![j] = k ]
                  /\ clone_dir' =
                       IF kind = "setup_and_clone" /\ run.ret # "raise"
                         THEN Assign(j, IF run.ret = "ok" THEN PathOf(j, stage[j]) ELSE NoneDir)
                         ELSE clone_dir
                  /\ todo' = [ todo EXCEPT ![j] = incs ]
                  /\ after' = [ after EXCEPT ![j] = where ]
                  /\ log' = [ log EXCEPT ![j] =
                                Append(@, CallEvent(j, stage[j], kind, run.ret)) ]
                  /\ pc' = [ pc EXCEPT ![j] = "read" ]
  /\ UNCHANGED << jobs, mainpc, stage, ignore, tmp, summary, report >>

\* summary[c] += 1, first half: the value is read.
ReadCounter(j) ==
  /\ pc[j] = "read"
  /\ todo[j] # <<>>
  /\ tmp' = [ tmp EXCEPT ![j] = summary[Head(todo[j]).ctr] ]
  /\ pc' = [ pc EXCEPT ![j] = "write" ]
  /\ UNCHANGED << jobs, mainpc, stage, kidx, ignore, clone_dir, todo,
                  after, summary, report, log >>

\* summary[c] += 1, second half: the value read, plus one, is stored.
WriteCounter(j) ==
  /\ pc[j] = "write"
  /\ LET inc == Head(todo[j])
         rest == Tail(todo[j])
     IN  /\ summary' = [ summary EXCEPT ![inc.ctr] = tmp[j] + 1 ]
         /\ todo' = [ todo EXCEPT ![j] = rest ]
         /\ IF rest # <<>>
              THEN /\ pc' = [ pc EXCEPT ![j] = "read" ]
                   /\ log' = [ log EXCEPT ![j] =
                                 Append(@, Event("inc", stage[j], TaskOrder[kidx[j]], inc.ctr, inc.by)) ]
                   /\ UNCHANGED << stage, kidx >>
              ELSE /\ Goto(j, after[j])
                   /\ log' = [ log EXCEPT ![j] =
                                 Append(@, Event("inc", stage[j], TaskOrder[kidx[j]], inc.ctr, inc.by))
                                   \o Leaving(j, after[j]) ]
  /\ UNCHANGED << jobs, mainpc, ignore, clone_dir, tmp, after, report >>

Worker(j) ==
  \/ BeginStage(j)
  \/ EndStage(j)
  \/ UnboundCall(j)
  \/ CallHandler(j)
  \/ ReadCounter(j)
  \/ WriteCounter(j)

Next ==
  \/ StartSimulation
  \/ SubmitJobs
  \/ WaitFutures
  \/ JoinSimulation
  \/ Report
  \/ \E j \in JobIds : Worker(j)

\* Two jobs with one task each, in every interleaving.
Init == InitWith(SideBySide)
Spec == Init /\ [][Next]_vars

\* The threads of the interpreter keep being scheduled, and every handler
\* returns or raises: a worker or the main thread that can take a step
\* eventually takes one.
MainThread == StartSimulation \/ SubmitJobs \/ WaitFutures \/ JoinSimulation \/ Report
Fairness == WF_vars(MainThread) /\ \A j \in JobIds : WF_vars(Worker(j))
LiveSpec == Spec /\ Fairness

\* One job with several tasks and stages.
InitAlone == InitWith(Alone)
SeqSpec == InitAlone /\ [][Next]_vars

\* The two jobs of the example, in every interleaving.
InitExample == InitWith(Example)
ExampleSpec == InitExample /\ [][Next]_vars

\* One job of two stages whose tasks are declared in any order.
InitAnyOrder == InitWith(AnyOrder)
OrderSpec == InitAnyOrder /\ [][Next]_vars

\* The flat mode: the main thread calls process_single_item for one item
\* after the other.
NextFlat ==
  \/ StartSimulation
  \/ \E j \in JobIds : CallItem(j)
  \/ EndItems
  \/ JoinSimulation
  \/ Report
  \/ \E j \in JobIds : Worker(j)

InitFlat == InitWith(Flat)
FlatSpec == InitFlat /\ [][NextFlat]_vars

\* One job of one stage over kinds of every sort.
InitWide == InitWith(Wide)
WideSpec == InitWide /\ [][Next]_vars

\* ============================================================ properties
\* ---------------------------------------------- reading the history
IsCall(e) == e.ev = "call"
FailedCall(e) == e.ev = "call" /\ e.arg = "fail"
RaisedCall(e) == e.ev = "call" /\ e.arg = "raise"

\* The stage of job j an event belongs to.
StageOf(j, e) == jobs[j][e.stage]

\* Some block is enabled in a stage of job j after stage s.
EnabledAfterStage(j, s) ==
  \E s2 \in (s + 1)..Len(jobs[j]) : NextEnabled(jobs[j][s2].tasks, 1) # 0

\* ------------------------------------------------------------------- C1
\* C1: in job mode, once a handler called in a stage whose ignore_failure
\* is false or absent has returned a failure, the worker of that job calls
\* no handler any more, neither of that stage nor of a later stage.
C1_CascadingAbort ==
  \A j \in JobIds : \A i \in 1..Len(log[j]) :
    (FailedCall(log[j][i]) /\ ~IgnoreFailure(StageOf(j, log[j][i])))
      => \A m \in (i + 1)..Len(log[j]) : ~IsCall(log[j][m])

\* A job has returned after a failure in a stage without ignore_failure
\* while a later stage of it has an enabled task.
C1_Witness ==
  \E j \in JobIds : \E i \in 1..Len(log[j]) :
    /\ pc[j] = "done"
    /\ FailedCall(log[j][i])
    /\ ~IgnoreFailure(StageOf(j, log[j][i]))
    /\ EnabledAfterStage(j, log[j][i].stage)

\* ------------------------------------------------------------------- C2
\* C2: after a handler called in a stage with ignore_failure = true has
\* returned a failure, the engine counts one failed and the handler of the
\* next enabled kind of the same stage is called.
C2_NextKindInvoked ==
  \A j \in JobIds : \A i \in 1..Len(log[j]) :
    LET e == log[j][i]
        n == NextEnabled(StageOf(j, e).tasks, IndexOf(e.kind) + 1)
    IN  (pc[j] = "done" /\ FailedCall(e) /\ IgnoreFailure(StageOf(j, e)))
          => /\ \E m \in (i + 1)..Len(log[j]) :
                  /\ log[j][m].ev = "inc"
                  /\ log[j][m].arg = "failed"
                  /\ log[j][m].by = "engine"
                  /\ log[j][m].stage = e.stage
                  /\ log[j][m].kind = e.kind
             /\ n # 0 =>
                  \E m \in (i + 1)..Len(log[j]) :
                    /\ IsCall(log[j][m])
                    /\ log[j][m].stage = e.stage
                    /\ log[j][m].kind = TaskOrder[n]

\* ------------------------------------------------------------------- C3
RECURSIVE SumOver(_, _)
SumOver(f, S) ==
  IF S = {} THEN 0
  ELSE LET x == CHOOSE y \in S : TRUE IN f[x] + SumOver(f, S \ { x })

\* The calls job j made or attempted.  All of them are taken to have a
\* definitive outcome, an exception being a failure.
DefinitiveCalls(j) ==
  Cardinality({ i \in 1..Len(log[j]) : log[j][i].ev \in { "call", "unbound" } })

\* The increments of counter c job j has performed.
IncOps(j, c) ==
  Cardinality({ i \in 1..Len(log[j]) : log[j][i].ev = "inc" /\ log[j][i].arg = c })

\* C3: when the batch completes, completed + failed of the reported summary
\* equals the number of handler calls, of all jobs, that returned success
\* or failure.
C3_CountsMatchOutcomes ==
  mainpc = "exit" =>
    report.completed + report.failed = SumOver([ j \in JobIds |-> DefinitiveCalls(j) ], JobIds)

\* ------------------------------------------------------------------- C4
\* C4: no update of the shared summary is lost: when the batch completes,
\* every counter equals the number of increments all workers performed on it.
C4_NoLostUpdate ==
  mainpc = "exit" =>
    \A c \in Counters : report[c] = SumOver([ j \in JobIds |-> IncOps(j, c) ], JobIds)

\* ------------------------------------------------------------------- C5
\* What the engine of a job does, without the counting.
EngineEvents == { "call", "unbound", "stage_done" }
Step(e, s, k) == [ ev |-> e, stage |-> s, kind |-> k ]

RECURSIVE EngineTrace(_)
EngineTrace(l) ==
  IF l = <<>> THEN <<>>
  ELSE IF Head(l).ev \in EngineEvents
         THEN << Step(Head(l).ev, Head(l).stage, Head(l).kind) >> \o EngineTrace(Tail(l))
         ELSE EngineTrace(Tail(l))

RECURSIVE Outcomes(_)
\* How the calls of a history ended, in order.
Outcomes(l) ==
  IF l = <<>> THEN <<>>
  ELSE IF IsCall(Head(l)) THEN << Head(l).arg >> \o Outcomes(Tail(l))
  ELSE Outcomes(Tail(l))

Then(e, r) == [ trace |-> << e >> \o r.trace, more |-> r.more ]
Stop(m) == [ trace |-> <<>>, more |-> m ]

\* A job run on its own: what a single thread does with these stages from
\* block k of stage s on, when its calls end as outs says; more tells that
\* it is about to make a call outs has no outcome for.
RECURSIVE Walk(_, _, _, _, _)
Walk(stages, s, k, bound, outs) ==
  IF s > Len(stages) THEN Stop(FALSE)
  ELSE
    LET tasks == stages[s].tasks
        on == { i \in k..Len(TaskOrder) :
                  \E e \in 1..Len(tasks) : tasks[e].kind = TaskOrder[i] /\ tasks[e].enabled }
    IN  IF on = {}
          THEN Then(Step("stage_done", s, ""), Walk(stages, s + 1, 1, bound, outs))
          ELSE
            LET n == CHOOSE i \in on : \A i2 \in on : i <= i2
                kind == TaskOrder[n]
                ign == "ignore_failure" \in DOMAIN stages[s] /\ stages[s].ignore_failure
                nowbound == bound \/ kind = "setup_and_clone"
            IN  IF kind \in UsesCloneDir /\ ~bound
                  THEN Then(Step("unbound", s, kind),
                            Then(Step("stage_done", s, ""), Walk(stages, s + 1, 1, bound, outs)))
                ELSE IF outs = <<>> THEN Stop(TRUE)
                ELSE
                  Then(Step("call", s, kind),
                       CASE Head(outs) = "ok" -> Walk(stages, s, n + 1, nowbound, Tail(outs))
                         [] Head(outs) = "fail" ->
                              IF ign THEN Walk(stages, s, n + 1, nowbound, Tail(outs))
                                     ELSE Stop(FALSE)
                         [] OTHER ->
                              IF kind \in InnerTry
                                THEN IF ign THEN Walk(stages, s, n + 1, bound, Tail(outs))
                                            ELSE Stop(FALSE)
                                ELSE Then(Step("stage_done", s, ""),
                                          Walk(stages, s + 1, 1, bound, Tail(outs))))

IsPrefix(a, b) == Len(a) <= Len(b) /\ SubSeq(b, 1, Len(a)) = a

\* C5: what a job's worker does (the handlers it calls, the stages it
\* completes) is what a single thread running that job alone does, given
\* the job's own configuration and the outcomes of its own calls: whatever
\* the other job does and however the two interleave, it is neither cut
\* short nor extended.
C5_JobIndependence ==
  \A j \in JobIds :
    LET t == EngineTrace(log[j])
        w == Walk(jobs[j], 1, 1, FALSE, Outcomes(log[j]))
    IN  /\ IsPrefix(t, w.trace)
        /\ pc[j] = "done" => (t = w.trace /\ ~w.more)

\* Both jobs are over: one returned early after a failure in a stage
\* without ignore_failure, the other called a handler and completed its stage.
C5_Witness ==
  \E a \in JobIds : \E b \in JobIds \ { a } :
    /\ pc[a] = "done" /\ pc[b] = "done"
    /\ \E i \in 1..Len(log[a]) :
         FailedCall(log[a][i]) /\ ~IgnoreFailure(StageOf(a, log[a][i]))
    /\ \E i \in 1..Len(log[b]) : IsCall(log[b][i])
    /\ \E i \in 1..Len(log[b]) : log[b][i].ev = "stage_done"

\* ------------------------------------------------------------------- C6
\* C6: after an exception left a handler called in a stage whose
\* ignore_failure is false or absent, the worker calls no handler any more,
\* as after a returned failure.
C6_RaiseAborts ==
  \A j \in JobIds : \A i \in 1..Len(log[j]) :
    (RaisedCall(log[j][i]) /\ ~IgnoreFailure(StageOf(j, log[j][i])))
      => \A m \in (i + 1)..Len(log[j]) : ~IsCall(log[j][m])

\* ------------------------------------------------------------------- C7
\* The exceptions job j met: in a handler, or in the call itself.
Raises(j) ==
  Cardinality({ i \in 1..Len(log[j]) : RaisedCall(log[j][i]) \/ log[j][i].ev = "unbound" })

\* The increments of failed job j performed in an except clause.
ExceptIncs(j) ==
  Cardinality({ i \in 1..Len(log[j]) :
                  log[j][i].ev = "inc" /\ log[j][i].arg = "failed" /\ log[j][i].by = "except" })

\* C7: an exception of a handler never leaves the worker: the worker is
\* never ended by it, has incremented failed once for every exception by
\* the time it goes on, and every worker has returned when the batch is
\* reported.
C7_ErrorsCaught ==
  /\ \A j \in JobIds :
       /\ pc[j] # "crashed"
       /\ pc[j] \in { "task", "stage", "done" } => ExceptIncs(j) = Raises(j)
  /\ mainpc = "exit" => \A j \in JobIds : pc[j] = "done"

\* The batch is reported; a handler of one job raised and the other job
\* called a handler that did not.
C7_Witness ==
  \E a \in JobIds : \E b \in JobIds \ { a } :
    /\ mainpc = "exit"
    /\ \E i \in 1..Len(log[a]) : RaisedCall(log[a][i])
    /\ \E i \in 1..Len(log[b]) : IsCall(log[b][i]) /\ log[b][i].arg = "ok"

\* ------------------------------------------------------------------- C8
\* C8: the main thread gets past the wait only when every worker has
\* returned and has no increment left, and the summary it printed is the
\* summary as it stays: nothing is called or counted after the report.
C8_ForkJoin ==
  /\ mainpc \in { "join", "report", "exit" } =>
       \A j \in JobIds : pc[j] = "done" /\ todo[j] = <<>>
  /\ mainpc = "exit" => report = summary

\* The batch is reported and every job has called a handler.
C8_Witness ==
  /\ mainpc = "exit"
  /\ \A j \in JobIds : \E i \in 1..Len(log[j]) : IsCall(log[j][i])

\* ------------------------------------------------------------------- C9
\* C9: the batch always finishes: whatever the handlers return or raise,
\* eventually every worker has returned and the summary is printed.
C9_BatchReports ==
  <>(mainpc = "exit" /\ \A j \in JobIds : pc[j] = "done")

\* The batch is reported although a call of every job failed or raised.
C9_Witness ==
  /\ mainpc = "exit"
  /\ \A j \in JobIds : \E i \in 1..Len(log[j]) : FailedCall(log[j][i]) \/ RaisedCall(log[j][i])

\* ------------------------------------------------------------------ C10
\* Every task entry of every stage of job j has enabled false.
AllDisabled(j) ==
  \A s \in 1..Len(jobs[j]) : \A i \in 1..Len(jobs[j][s].tasks) : ~jobs[j][s].tasks[i].enabled

\* C10: a job whose stages have no enabled task (enabled false, or no
\* entry) calls no handler and increments no counter, and when its worker
\* returns it has completed every one of its stages, in order.
C10_DisabledJobIdle ==
  \A j \in JobIds :
    AllDisabled(j) =>
      /\ \A i \in 1..Len(log[j]) : log[j][i].ev = "stage_done"
      /\ pc[j] = "done" =>
           /\ Len(log[j]) = Len(jobs[j])
           /\ \A i \in 1..Len(log[j]) : log[j][i].stage = i

\* A job with a disabled entry and no enabled one has returned, and the
\* other job has called a handler.
C10_Witness ==
  \E a \in JobIds : \E b \in JobIds \ { a } :
    /\ AllDisabled(a)
    /\ \E s \in 1..Len(jobs[a]) : jobs[a][s].tasks # <<>>
    /\ pc[a] = "done"
    /\ \E i \in 1..Len(log[b]) : IsCall(log[b][i])

\* ------------------------------------------------------------------ C11
\* The increments of counter c that belong to the call (or the attempt) e
\* of job j: a kind is called at most once in a stage.
IncsFor(j, e, c) ==
  Cardinality({ m \in 1..Len(log[j]) :
                  /\ log[j][m].ev = "inc"
                  /\ log[j][m].stage = e.stage
                  /\ log[j][m].kind = e.kind
                  /\ log[j][m].arg = c })

\* C11: a handler call that ended in a failure has increased failed by
\* exactly one and has left completed unchanged.
C11_FailureCountsOnce ==
  \A j \in JobIds : \A i \in 1..Len(log[j]) :
    (pc[j] = "done" /\ FailedCall(log[j][i]))
      => /\ IncsFor(j, log[j][i], "failed") = 1
         /\ IncsFor(j, log[j][i], "completed") = 0

\* ------------------------------------------------------------------ C12
\* C12: a handler call that ended in success has increased completed by
\* exactly one and has left failed unchanged, whatever the number of steps
\* or branches of the task.
C12_SuccessCountsOnce ==
  \A j \in JobIds : \A i \in 1..Len(log[j]) :
    (pc[j] = "done" /\ IsCall(log[j][i]) /\ log[j][i].arg = "ok")
      => /\ IncsFor(j, log[j][i], "completed") = 1
         /\ IncsFor(j, log[j][i], "failed") = 0

\* ------------------------------------------------------------------ C13
\* An sh or bash call that the handler skipped for want of steps: it
\* returned False without counting anything itself.
SkippedCall(j, i) ==
  /\ FailedCall(log[j][i])
  /\ log[j][i].kind \in { "sh", "bash" }
  /\ \A m \in 1..Len(log[j]) :
       (log[j][m].ev = "inc" /\ log[j][m].stage = log[j][i].stage
          /\ log[j][m].kind = log[j][i].kind) => log[j][m].by # "handler"

\* C13: a skipped task increments neither completed nor failed and does
\* not trigger the abort rule: the enabled tasks of the later stages of
\* the job are still attempted.
C13_SkippedNotCounted ==
  \A j \in JobIds : \A i \in 1..Len(log[j]) :
    (pc[j] = "done" /\ SkippedCall(j, i))
      => /\ IncsFor(j, log[j][i], "failed") = 0
         /\ IncsFor(j, log[j][i], "completed") = 0
         /\ EnabledAfterStage(j, log[j][i].stage) =>
              \E m \in (i + 1)..Len(log[j]) : log[j][m].ev \in { "call", "unbound" }

\* ------------------------------------------------------------------ C14
\* The first call of job j is a setup_and_clone call that returned a failure.
CloneFailed(j) ==
  /\ log[j] # <<>>
  /\ FailedCall(log[j][1])
  /\ log[j][1].kind = "setup_and_clone"

\* C14: in the example batch, when the clone of both jobs fails, the build
\* handler of the first job is never called and the batch is reported with
\* failed >= 2 and completed = 0, in every interleaving.
C14_ExampleScenario ==
  (\A j \in JobIds : CloneFailed(j))
    => /\ \A i \in 1..Len(log["A"]) : log["A"][i].kind # "maven"
       /\ mainpc = "exit" => (report.failed >= 2 /\ report.completed = 0)

\* ------------------------------------------------------------------ C15
\* What a worker attempted in stage s, in order: the kind and how it ended.
RECURSIVE AttemptsIn(_, _)
AttemptsIn(l, s) ==
  IF l = <<>> THEN <<>>
  ELSE IF Head(l).ev \in { "call", "unbound" } /\ Head(l).stage = s
         THEN << [ kind |-> Head(l).kind, ev |-> Head(l).ev, arg |-> Head(l).arg ] >>
                \o AttemptsIn(Tail(l), s)
         ELSE AttemptsIn(Tail(l), s)

\* The kinds a stage enables.
EnabledKinds(st) == { k \in Kinds : \E i \in 1..Len(st.tasks) : st.tasks[i].kind = k /\ st.tasks[i].enabled }

\* C15: two stages that enable the same kinds, in whatever order they
\* declare them, are walked in the same order: as long as their attempts
\* ended alike so far, the next kind attempted is the same in both.
C15_FixedOrder ==
  \A j \in JobIds : \A s1, s2 \in 1..Len(jobs[j]) :
    LET a1 == AttemptsIn(log[j], s1)
        a2 == AttemptsIn(log[j], s2)
    IN  EnabledKinds(jobs[j][s1]) = EnabledKinds(jobs[j][s2])
          => \A p \in 1..Len(a1) :
               (p <= Len(a2) /\ \A q \in 1..(p - 1) : a1[q] = a2[q])
                 => a1[p].kind = a2[p].kind

\* A job has attempted two kinds in each of two stages that declare the
\* same kinds in different orders.
C15_Witness ==
  \E j \in JobIds : \E s1, s2 \in 1..Len(jobs[j]) :
    /\ pc[j] = "done"
    /\ EnabledKinds(jobs[j][s1]) = EnabledKinds(jobs[j][s2])
    /\ jobs[j][s1].tasks # jobs[j][s2].tasks
    /\ Len(AttemptsIn(log[j], s1)) >= 2
    /\ Len(AttemptsIn(log[j], s2)) >= 2

\* ------------------------------------------------------------------ C16
\* The positions in the history of job j of what it attempted.
AttemptsAt(j) == { i \in 1..Len(log[j]) : log[j][i].ev \in { "call", "unbound" } }

\* C16: what a job attempts is ordered by stage and, within a stage, by
\* the order of the blocks; and a handler has returned, with all it
\* counts, before the next one is called: every increment belongs to the
\* attempt made last.
C16_OneAtATime ==
  \A j \in JobIds :
    /\ \A a, b \in AttemptsAt(j) :
         a < b => \/ log[j][a].stage < log[j][b].stage
                  \/ /\ log[j][a].stage = log[j][b].stage
                     /\ IndexOf(log[j][a].kind) < IndexOf(log[j][b].kind)
    /\ \A m \in 1..Len(log[j]) :
         log[j][m].ev = "inc" =>
           \E a \in AttemptsAt(j) :
             /\ a < m
             /\ \A b \in AttemptsAt(j) : ~(a < b /\ b < m)
             /\ log[j][a].stage = log[j][m].stage
             /\ log[j][a].kind = log[j][m].kind

\* A job has returned after two calls in its first stage and one in its
\* second.
C16_Witness ==
  \E j \in JobIds :
    /\ pc[j] = "done"
    /\ Len(AttemptsIn(log[j], 1)) >= 2
    /\ Len(AttemptsIn(log[j], 2)) >= 1

\* ------------------------------------------------------------------ C17
\* C17: the working directory a worker holds, and passes to its handlers,
\* is unset, None, or the result of a setup_and_clone call of its own job.
C17_OwnCloneDir ==
  \A j \in JobIds :
    clone_dir[j] \in { Unbound, NoneDir } \cup { PathOf(j, s) : s \in 1..Len(jobs[j]) }

\* The first job has just passed the directory of its own clone to its
\* build handler while the second job holds the directory of its clone.
C17_Witness ==
  /\ log["A"] # <<>>
  /\ IsCall(log["A"][Len(log["A"])])
  /\ log["A"][Len(log["A"])].kind \in UsesCloneDir
  /\ clone_dir["A"] = PathOf("A", 1)
  /\ clone_dir["B"] = PathOf("B", 1)

\* ------------------------------------------------------------------ C18
\* C18: a task whose call reads the working directory before any
\* setup_and_clone of the job has set it ends as a failure counted once
\* and handled like a returned failure: with ignore_failure the next
\* enabled kind of the stage is attempted, without it nothing more of the
\* job is attempted.
C18_UnboundIsFailure ==
  \A j \in JobIds : \A i \in 1..Len(log[j]) :
    LET e == log[j][i]
        n == NextEnabled(StageOf(j, e).tasks, IndexOf(e.kind) + 1)
    IN  (pc[j] = "done" /\ e.ev = "unbound")
          => /\ IncsFor(j, e, "failed") = 1
             /\ IncsFor(j, e, "completed") = 0
             /\ IF IgnoreFailure(StageOf(j, e))
                  THEN n # 0 =>
                         \E m \in (i + 1)..Len(log[j]) :
                           /\ log[j][m].ev \in { "call", "unbound" }
                           /\ log[j][m].stage = e.stage
                           /\ log[j][m].kind = TaskOrder[n]
                  ELSE \A m \in (i + 1)..Len(log[j]) :
                         log[j][m].ev \notin { "call", "unbound" }

\* ------------------------------------------------------------------ C19
\* C19: in the flat mode, once a handler called for an item whose
\* ignore_failure is false or absent has returned a failure, no handler
\* is called for any later item of the list.
C19_FlatCascade ==
  \A j \in JobIds : \A i \in 1..Len(log[j]) :
    (FailedCall(log[j][i]) /\ ~IgnoreFailure(StageOf(j, log[j][i])))
      => \A k \in JobIds :
           ItemIndex(j) < ItemIndex(k) => \A m \in 1..Len(log[k]) : ~IsCall(log[k][m])

\* ------------------------------------------------------------------ C20
\* C20: every job of the batch has a worker of its own: once the jobs are
\* submitted, a job that has not begun can begin at once, whatever the
\* other jobs are doing.
C20_WorkerPerJob ==
  /\ mainpc \notin { "start", "submit" } => \A j \in JobIds : pc[j] # "new"
  /\ \A j \in JobIds : (pc[j] = "stage" /\ ~Started(j)) => ENABLED BeginStage(j)

\* All the jobs of the batch are in progress at the same time, each
\* between the two halves of an increment.
C20_Witness ==
  \A j \in JobIds : Running(j) /\ pc[j] = "write"

\* ------------------------------------------------------------------ C21
\* The mapping without the entries of kinds the engine has no block for.
RECURSIVE Known(_)
Known(tasks) ==
  IF tasks = <<>> THEN <<>>
  ELSE IF Head(tasks).kind \in Kinds THEN << Head(tasks) >> \o Known(Tail(tasks))
  ELSE Known(Tail(tasks))

\* The stages of a job without those entries.
KnownOnly(stages) ==
  [ s \in 1..Len(stages) |->
      [ f \in DOMAIN stages[s] |-> IF f = "tasks" THEN Known(stages[s].tasks) ELSE stages[s][f] ] ]

\* C21: an entry of a kind the engine does not know changes nothing: no
\* call and no increment is made for it, and the worker does what it does
\* with the same stages without that entry.
C21_UnknownKindIgnored ==
  \A j \in JobIds :
    LET t == EngineTrace(log[j])
        w == Walk(KnownOnly(jobs[j]), 1, 1, FALSE, Outcomes(log[j]))
    IN  /\ \A i \in 1..Len(log[j]) : log[j][i].kind \in Kinds \cup { "" }
        /\ IsPrefix(t, w.trace)
        /\ pc[j] = "done" => (t = w.trace /\ ~w.more)

\* A job has completed a stage that holds an enabled entry of an unknown
\* kind after calling the handler of a kind it knows.
C21_Witness ==
  \E j \in JobIds :
    /\ pc[j] = "done"
    /\ \E s \in 1..Len(jobs[j]) : \E i \in 1..Len(jobs[j][s].tasks) :
         jobs[j][s].tasks[i].kind \notin Kinds /\ jobs[j][s].tasks[i].enabled
    /\ \E i \in 1..Len(log[j]) : IsCall(log[j][i])
    /\ \E i \in 1..Len(log[j]) : log[j][i].ev = "stage_done"

\* ------------------------------------------------------------------ C22
\* C22: after an exception left a handler called in a stage with
\* ignore_failure = true, failed is counted once and the next enabled kind
\* of the same stage is attempted.
C22_RaiseContinues ==
  \A j \in JobIds : \A i \in 1..Len(log[j]) :
    LET e == log[j][i]
        n == NextEnabled(StageOf(j, e).tasks, IndexOf(e.kind) + 1)
    IN  (pc[j] = "done" /\ RaisedCall(e) /\ IgnoreFailure(StageOf(j, e)))
          => /\ IncsFor(j, e, "failed") = 1
             /\ n # 0 =>
                  \E m \in (i + 1)..Len(log[j]) :
                    /\ log[j][m].ev \in { "call", "unbound" }
                    /\ log[j][m].stage = e.stage
                    /\ log[j][m].kind = TaskOrder[n]

\* ------------------------------------------------------------------ C23
\* The positions before m in the history of job j of the setup_and_clone
\* calls.
ClonesBefore(j, m) ==
  { c \in 1..(m - 1) : IsCall(log[j][c]) /\ log[j][c].kind = "setup_and_clone" }

\* The last of them.
LastClone(j, m) == CHOOSE c \in ClonesBefore(j, m) : \A d \in ClonesBefore(j, m) : d <= c

\* The calls of job j that pass clone_dir.
ConsumingAt(j) ==
  { m \in 1..Len(log[j]) : IsCall(log[j][m]) /\ log[j][m].kind \in UsesCloneDir }

\* C23: a handler that consumes the working directory receives the
\* directory returned by the last setup_and_clone call of its job, when
\* that call succeeded, be it in the same stage or in an earlier one.
C23_DirThreaded ==
  \A j \in JobIds : \A m \in ConsumingAt(j) :
    (ClonesBefore(j, m) # {} /\ log[j][LastClone(j, m)].arg = "ok")
      => log[j][m].dir = PathOf(j, log[j][LastClone(j, m)].stage)

\* A build handler of the second stage has received the directory cloned
\* in the first stage.
C23_Witness ==
  \E j \in JobIds : \E m \in ConsumingAt(j) :
    /\ log[j][m].stage = 2
    /\ log[j][m].dir = PathOf(j, 1)

\* ------------------------------------------------------------------ C28
\* C28: once a setup_and_clone call of a job has succeeded, every handler
\* that consumes the working directory afterwards receives a directory,
\* also after a later setup_and_clone call that failed.
C28_DirNeverUnset ==
  \A j \in JobIds : \A m \in ConsumingAt(j) :
    (\E c \in ClonesBefore(j, m) : log[j][c].arg = "ok")
      => log[j][m].dir \notin { Unbound, NoneDir }

\* ------------------------------------------------------------------ C29
\* C29: in the flat mode the working directory of an item is its own: it
\* is unassigned until a setup_and_clone call of that item returns,
\* whatever the items before it cloned, and a handler of the item receives
\* nothing but the result of such a call.
C29_FlatFreshState ==
  \A j \in JobIds :
    /\ ClonesBefore(j, Len(log[j]) + 1) = {} => clone_dir[j] = Unbound
    /\ \A m \in ConsumingAt(j) : log[j][m].dir \in { NoneDir, PathOf(j, 1) }

\* The first item has cloned its directory and the second item, which
\* enables a build and no clone, could not make the call.
C29_Witness ==
  /\ clone_dir["A"] = PathOf("A", 1)
  /\ \E i \in 1..Len(log["B"]) : log["B"][i].ev = "unbound"

\* ------------------------------------------------------------------ C24
\* The build tools and the scans.
BuildsAndScans ==
  { "maven", "gradle", "yarn", "go_build", "npm", "trivy", "sonarqube_analysis" }

\* The position in the history of job j of the call of a kind in stage s,
\* 0 if there is none.
CallAt(j, s, kind) ==
  LET at == { i \in 1..Len(log[j]) :
                IsCall(log[j][i]) /\ log[j][i].stage = s /\ log[j][i].kind = kind }
  IN  IF at = {} THEN 0 ELSE CHOOSE i \in at : TRUE

\* C24: in a stage the notification handler is called after every build
\* tool and every scan of the stage and before request_approval: no build
\* or scan is called after it, and it is not called after the approval.
C24_NotificationAfterBuilds ==
  \A j \in JobIds : \A s \in 1..Len(jobs[j]) :
    LET n == CallAt(j, s, "send_notification")
    IN  n # 0 =>
          /\ \A k \in BuildsAndScans : CallAt(j, s, k) < n
          /\ CallAt(j, s, "request_approval") = 0 \/ n < CallAt(j, s, "request_approval")

\* ------------------------------------------------------------------ C25
\* C25: a call of the notification or of the approval handler changes one
\* counter by one, completed when it succeeds and failed otherwise; when
\* it raises, the job ends if ignore_failure is false and goes on with the
\* rest of the stage if it is true.
C25_InnerTryCounts ==
  \A j \in JobIds : \A i \in 1..Len(log[j]) :
    LET e == log[j][i]
    IN  (pc[j] = "done" /\ IsCall(e) /\ e.kind \in InnerTry)
          => /\ IncsFor(j, e, "completed") = (IF e.arg = "ok" THEN 1 ELSE 0)
             /\ IncsFor(j, e, "failed") = (IF e.arg = "ok" THEN 0 ELSE 1)
             /\ IncsFor(j, e, "uploaded") = 0
             /\ e.arg = "raise" =>
                  IF IgnoreFailure(StageOf(j, e))
                    THEN \E m \in (i + 1)..Len(log[j]) :
                           log[j][m].ev = "stage_done" /\ log[j][m].stage = e.stage
                    ELSE \A m \in (i + 1)..Len(log[j]) :
                           log[j][m].ev \notin { "call", "unbound", "stage_done" }

\* A job has returned after its notification failed and its approval
\* handler raised, in a stage with ignore_failure = true.
C25_Witness ==
  \E j \in JobIds : \E i \in 1..Len(log[j]) :
    /\ pc[j] = "done"
    /\ RaisedCall(log[j][i])
    /\ log[j][i].kind = "request_approval"
    /\ IgnoreFailure(StageOf(j, log[j][i]))
    /\ \E m \in 1..(i - 1) : FailedCall(log[j][m]) /\ log[j][m].kind = "send_notification"

\* ------------------------------------------------------------------ C26
\* Something of job j failed: a call returned a failure or raised, or
\* could not be made.
SomethingFailed(j) ==
  \E i \in 1..Len(log[j]) :
    FailedCall(log[j][i]) \/ RaisedCall(log[j][i]) \/ log[j][i].ev = "unbound"

\* C26: in the report, failed is 0 exactly when nothing failed or raised
\* in any job, and completed is 0 exactly when no job counted a success.
C26_FailuresNotHidden ==
  mainpc = "exit" =>
    /\ report.failed = 0 <=> \A j \in JobIds : ~SomethingFailed(j)
    /\ report.completed = 0 <=> \A j \in JobIds : IncOps(j, "completed") = 0

\* The batch is reported after the two jobs lost an update of failed: both
\* have counted it and it is less than the increments performed.
C26_Witness ==
  /\ mainpc = "exit"
  /\ \A j \in JobIds : IncOps(j, "failed") > 0
  /\ report.failed < SumOver([ j \in JobIds |-> IncOps(j, "failed") ], JobIds)

\* ------------------------------------------------------------------ C27
\* C27: no counter of the summary is ever negative and no step of any
\* worker decreases one.
C27_Monotone ==
  [][\A c \in Counters : summary[c] >= 0 /\ summary'[c] >= summary[c]]_vars

\* ------------------------------------------------------------------ C30
\* C30: uploaded is 0 in every state and in the report.
C30_UploadedUntouched ==
  /\ summary.uploaded = 0
  /\ mainpc = "exit" => report.uploaded = 0

\* The batch is reported after a successful push to the registry.
C30_Witness ==
  /\ mainpc = "exit"
  /\ \E j \in JobIds : \E i \in 1..Len(log[j]) :
       IsCall(log[j][i]) /\ log[j][i].kind = "docker_hub" /\ log[j][i].arg = "ok"

====
